---- MODULE Spec2Model ----
(***************************************************************************)
(* Session state machine of the DermaAI chat component (src/src/App.js,    *)
(* function App): the five useState slots, the two asynchronous submit     *)
(* handlers with their two suspension points (await fetch, await           *)
(* res.json()), the confidence interpreters and the preset handler.        *)
(*                                                                         *)
(* A confidence is a number in [0, 100] held in eighths (85.5 is 684), so  *)
(* that every modelled value is an exact binary fraction and toFixed(2)    *)
(* rounds it exactly as the engine does.  A JSON object is a record whose  *)
(* DOMAIN is the set of keys the payload carries.  settled holds, in the   *)
(* state a step of res.json() leads to, the dispatch that step resumed and *)
(* the body it was given (<<>> for a body that is not JSON); it is empty   *)
(* after every other step.                                                 *)
(***************************************************************************)
EXTENDS Integers, Sequences, FiniteSets, TLC

VARIABLES message, image, chatHistory, result, imageResult,
          inflight, fetches, urls, alerts, settled

vars == <<message, image, chatHistory, result, imageResult,
          inflight, fetches, urls, alerts, settled>>

----------------------------------------------------------------------------
(* Bounds of the exploration *)

MaxDispatch == 2
MaxAlerts == 1
MaxPrompt == 1

(* Inputs of the exploration *)

TypedTexts == {"", "Dry patch"}
Files == {"arm.png"}
TextLabels == {"Eczema"}
ImageLabels == {"Psoriasis"}
ServiceErrors == {"No message provided"}
Confidences == {8 * 40, 8 * 85 + 4}

----------------------------------------------------------------------------
(* Values of the program *)

Null == "null"
Undefined == "undefined"

prompts ==
  << "Red rash on arms",
     "Itching and dryness",
     "Skin inflammation",
     "Blisters and bumps",
     "Swelling and redness" >>

Threshold == 70

ChatDisclaimer ==
  "We couldn't confidently predict a disease based on your symptoms."

ImageDisclaimer ==
  "We couldn't confidently diagnose the skin condition from the image."

ConnectError == "Error connecting to the API."

AlertText == "Please upload an image."

----------------------------------------------------------------------------
(* JavaScript helpers *)

\* truthiness of the property k of the object d, a string
Truthy(d, k) == k \in DOMAIN d /\ d[k] # ""

\* variant: the threshold excluded on the pass side (<= 70)
LowConfidenceInclusive(response) ==
  \/ "confidence" \notin DOMAIN response
  \/ response.confidence = 0
  \/ response.confidence <= 8 * Threshold

\* !response.confidence || response.confidence < 70
LowConfidence(response) ==
  \/ "confidence" \notin DOMAIN response
  \/ response.confidence = 0
  \/ response.confidence < 8 * Threshold

Digit(d) == CASE d = 0 -> "0" [] d = 1 -> "1" [] d = 2 -> "2" [] d = 3 -> "3"
              [] d = 4 -> "4" [] d = 5 -> "5" [] d = 6 -> "6" [] d = 7 -> "7"
              [] d = 8 -> "8" [] d = 9 -> "9"

\* the integer n for which n / 100 is nearest to c / 8, the larger on a tie
Hundredths(c) == (100 * c + 4) \div 8

\* variant: the fraction printed without its leading zero
toFixed2Unpadded(c) ==
  LET n == Hundredths(c)
  IN  ToString(n \div 100) \o "." \o ToString(n % 100)

\* Number.prototype.toFixed(2) of the non-negative number c / 8
toFixed2(c) ==
  LET n == Hundredths(c)
  IN  ToString(n \div 100) \o "." \o Digit((n % 100) \div 10) \o Digit(n % 10)

\* the value handleChatResponse passes to setResult
handleChatResponse(response) ==
  IF LowConfidence(response)
  THEN ChatDisclaimer
  ELSE response.response \o " (Confidence: " \o toFixed2(response.confidence) \o "%)"

\* variant: the disclaimer of the text channel copied into the image channel
handleImagePredictionCopied(response) ==
  IF LowConfidence(response)
  THEN ChatDisclaimer
  ELSE response.prediction \o " (Confidence: " \o toFixed2(response.confidence) \o "%)"

\* the value handleImagePrediction passes to setImageResult
handleImagePrediction(response) ==
  IF LowConfidence(response)
  THEN ImageDisclaimer
  ELSE response.prediction \o " (Confidence: " \o toFixed2(response.confidence) \o "%)"

\* variant: the two texts of the entry exchanged
TextEntrySwapped(user, bot) == [type |-> "text", user |-> bot, bot |-> user]

TextEntry(user, bot) == [type |-> "text", user |-> user, bot |-> bot]

\* variant: the reference stored under the key of the text entries as well
ImageEntryWithUser(url, bot) ==
  [type |-> "image", user |-> url, imageUrl |-> url, bot |-> bot]

ImageEntry(url, bot) == [type |-> "image", imageUrl |-> url, bot |-> bot]

\* variant: the text of the caught error put in the entry
ConnectErrorEntryRaw == TextEntry("Error", "TypeError: Failed to fetch")

\* the entry of the catch blocks
ConnectErrorEntry == TextEntry("Error", ConnectError)

\* variant: the fixed message in place of the service's
ServiceErrorEntryGeneric(data) == TextEntry("Error", ConnectError)

\* the entry of the data.error branch of handleSendMessage
ServiceErrorEntry(data) == TextEntry("Error", data.error)

\* variant: image === null
NoImageStrict(img) == img = Null

\* !image
NoImage(img) == img \in {Null, Undefined}

\* variant: [entry, ...prevHistory]
prependEntry(prevHistory, entry) == <<entry>> \o prevHistory

\* the functional updater (prevHistory) => [...prevHistory, entry]
appendEntry(prevHistory, entry) == Append(prevHistory, entry)

\* variant: the user text read from the input as it is at completion
ChatOutcomeCurrent(prevHistory, r, data) ==
  IF Truthy(data, "response")
  THEN appendEntry(prevHistory, TextEntry(message, data.response))
  ELSE IF Truthy(data, "error")
  THEN appendEntry(prevHistory, ServiceErrorEntry(data))
  ELSE prevHistory

\* variant: [...chatHistory, entry] on the transcript captured at submit
ChatOutcomeStale(prevHistory, r, data) ==
  IF Truthy(data, "response")
  THEN appendEntry(r.history, TextEntry(r.message, data.response))
  ELSE IF Truthy(data, "error")
  THEN appendEntry(r.history, ServiceErrorEntry(data))
  ELSE prevHistory

\* the transcript after the branches of handleSendMessage on parsed data
ChatOutcome(prevHistory, r, data) ==
  IF Truthy(data, "response")
  THEN appendEntry(prevHistory, TextEntry(r.message, data.response))
  ELSE IF Truthy(data, "error")
  THEN appendEntry(prevHistory, ServiceErrorEntry(data))
  ELSE prevHistory

\* variant: the data.error branch of the text channel repeated here
ImageOutcomeMirrored(prevHistory, r, data) ==
  IF Truthy(data, "prediction")
  THEN appendEntry(prevHistory, ImageEntry(r.localUrl, data.prediction))
  ELSE IF Truthy(data, "error")
  THEN appendEntry(prevHistory, ServiceErrorEntry(data))
  ELSE prevHistory

\* the transcript after the branch of handleImageUpload on parsed data
ImageOutcome(prevHistory, r, data) ==
  IF Truthy(data, "prediction")
  THEN appendEntry(prevHistory, ImageEntry(r.localUrl, data.prediction))
  ELSE prevHistory

\* URL.createObjectURL: a fresh reference to the file on every call
createObjectURL(file, n) == [blob |-> n, file |-> file]

----------------------------------------------------------------------------
(* What the service can answer *)

WithConfidence(base) ==
  {base} \cup {[k \in DOMAIN base \cup {"confidence"} |->
                  IF k = "confidence" THEN c ELSE base[k]] : c \in Confidences}

ErrorBodies == {[error |-> m] : m \in ServiceErrors}

ChatBodies ==
  UNION {WithConfidence([response |-> l]) : l \in TextLabels}
    \cup ErrorBodies
    \cup {[response |-> ""]}

ImageBodies ==
  UNION {WithConfidence([prediction |-> l]) : l \in ImageLabels}
    \cup ErrorBodies
    \cup {[prediction |-> ""]}

\* what res.json() can settle with: <<>> when the body is not JSON; a
\* non-2xx response carries an error object or no JSON at all
Settlements(ok, bodies) ==
  {<<>>} \cup {<<b>> : b \in IF ok THEN bodies ELSE ErrorBodies}

----------------------------------------------------------------------------
(* Initial state: the useState defaults *)

Init ==
  /\ message = ""
  /\ image = Null
  /\ chatHistory = <<>>
  /\ result = ""
  /\ imageResult = ""
  /\ inflight = {}
  /\ fetches = 0
  /\ urls = 0
  /\ alerts = <<>>
  /\ settled = <<>>

----------------------------------------------------------------------------
(* User input *)

\* onChange of the text input
ChangeMessage ==
  \E t \in TypedTexts :
    /\ message' = t
    /\ settled' = <<>>
    /\ UNCHANGED <<image, chatHistory, result, imageResult,
                   inflight, fetches, urls, alerts>>

\* onChange of the file input; files[0] is undefined when nothing is chosen
ChangeImage ==
  \E f \in Files \cup {Undefined} :
    /\ image' = f
    /\ settled' = <<>>
    /\ UNCHANGED <<message, chatHistory, result, imageResult,
                   inflight, fetches, urls, alerts>>

\* variant: the preset submitted as soon as it is chosen
handlePromptClickSubmits ==
  \E i \in 1..MaxPrompt :
    /\ fetches < MaxDispatch
    /\ message' = prompts[i]
    /\ fetches' = fetches + 1
    /\ inflight' = inflight \cup
         {[id |-> fetches + 1, chan |-> "text", stage |-> "fetch",
           message |-> prompts[i], history |-> chatHistory]}
    /\ settled' = <<>>
    /\ UNCHANGED <<image, chatHistory, result, imageResult, urls, alerts>>

handlePromptClick ==
  \E i \in 1..MaxPrompt :
    /\ message' = prompts[i]
    /\ settled' = <<>>
    /\ UNCHANGED <<image, chatHistory, result, imageResult,
                   inflight, fetches, urls, alerts>>

----------------------------------------------------------------------------
(* Text channel *)

\* variant: a busy flag the catch block leaves set, so that no submit is
\* taken once a connection failure is on the transcript
handleSendMessageBusy ==
  /\ message # ""
  /\ \A i \in 1..Len(chatHistory) : chatHistory[i] # ConnectErrorEntry
  /\ fetches < MaxDispatch
  /\ fetches' = fetches + 1
  /\ inflight' = inflight \cup
       {[id |-> fetches + 1, chan |-> "text", stage |-> "fetch",
         message |-> message, history |-> chatHistory]}
  /\ settled' = <<>>
  /\ UNCHANGED <<message, image, chatHistory, result, imageResult, urls, alerts>>

\* handleSendMessage up to the first await; the form submits only a
\* non-empty required input
handleSendMessage ==
  /\ message # ""
  /\ fetches < MaxDispatch
  /\ fetches' = fetches + 1
  /\ inflight' = inflight \cup
       {[id |-> fetches + 1, chan |-> "text", stage |-> "fetch",
         message |-> message, history |-> chatHistory]}
  /\ settled' = <<>>
  /\ UNCHANGED <<message, image, chatHistory, result, imageResult, urls, alerts>>

\* the fetch promise resolves with the status line of a response
ChatFetchResolve(r) ==
  /\ r.chan = "text" /\ r.stage = "fetch"
  /\ \E ok \in BOOLEAN :
       inflight' = (inflight \ {r}) \cup
         {[id |-> r.id, chan |-> "text", stage |-> "json",
           message |-> r.message, history |-> r.history, ok |-> ok]}
  /\ settled' = <<>>
  /\ UNCHANGED <<message, image, chatHistory, result, imageResult,
                 fetches, urls, alerts>>

\* variant: setMessage('') inside the try block, skipped by a failure
ChatCatchNoClear(r) ==
  /\ chatHistory' = appendEntry(chatHistory, ConnectErrorEntry)
  /\ inflight' = inflight \ {r}
  /\ UNCHANGED <<message, image, result, imageResult, fetches, urls, alerts>>

\* the catch block of handleSendMessage, then setMessage('')
ChatCatch(r) ==
  /\ chatHistory' = appendEntry(chatHistory, ConnectErrorEntry)
  /\ message' = ""
  /\ inflight' = inflight \ {r}
  /\ UNCHANGED <<image, result, imageResult, fetches, urls, alerts>>

\* the fetch promise rejects
ChatFetchReject(r) ==
  /\ r.chan = "text" /\ r.stage = "fetch"
  /\ settled' = <<>>
  /\ ChatCatch(r)

\* variant: setResult('') on every response without a label
ChatJsonWithReset(r, json) ==
  /\ r.chan = "text" /\ r.stage = "json"
  /\ settled' = <<[id |-> r.id, json |-> json]>>
  /\ IF json = <<>>
     THEN ChatCatch(r)
     ELSE LET data == json[1] IN
          /\ result' = IF Truthy(data, "response")
                       THEN handleChatResponse(data) ELSE ""
          /\ chatHistory' = ChatOutcome(chatHistory, r, data)
          /\ message' = ""
          /\ inflight' = inflight \ {r}
          /\ UNCHANGED <<image, imageResult, fetches, urls, alerts>>

\* res.json() settles with json and handleSendMessage runs to its end
ChatJsonWith(r, json) ==
  /\ r.chan = "text" /\ r.stage = "json"
  /\ settled' = <<[id |-> r.id, json |-> json]>>
  /\ IF json = <<>>
     THEN ChatCatch(r)
     ELSE LET data == json[1] IN
          /\ result' = IF Truthy(data, "response")
                       THEN handleChatResponse(data) ELSE result
          /\ chatHistory' = ChatOutcome(chatHistory, r, data)
          /\ message' = ""
          /\ inflight' = inflight \ {r}
          /\ UNCHANGED <<image, imageResult, fetches, urls, alerts>>

ChatJson(r) ==
  /\ r.chan = "text" /\ r.stage = "json"
  /\ \E json \in Settlements(r.ok, ChatBodies) : ChatJsonWith(r, json)

----------------------------------------------------------------------------
(* Image channel *)

\* handleImageUpload up to the first await
handleImageUpload ==
  IF NoImage(image)
  THEN /\ Len(alerts) < MaxAlerts
       /\ alerts' = Append(alerts, AlertText)
       /\ settled' = <<>>
       /\ UNCHANGED <<message, image, chatHistory, result, imageResult,
                      inflight, fetches, urls>>
  ELSE /\ fetches < MaxDispatch
       /\ fetches' = fetches + 1
       /\ urls' = urls + 1
       /\ inflight' = inflight \cup
            {[id |-> fetches + 1, chan |-> "image", stage |-> "fetch",
              file |-> image, localUrl |-> createObjectURL(image, urls + 1)]}
       /\ settled' = <<>>
       /\ UNCHANGED <<message, image, chatHistory, result, imageResult, alerts>>

ImageFetchResolve(r) ==
  /\ r.chan = "image" /\ r.stage = "fetch"
  /\ \E ok \in BOOLEAN :
       inflight' = (inflight \ {r}) \cup
         {[id |-> r.id, chan |-> "image", stage |-> "json",
           file |-> r.file, localUrl |-> r.localUrl, ok |-> ok]}
  /\ settled' = <<>>
  /\ UNCHANGED <<message, image, chatHistory, result, imageResult,
                 fetches, urls, alerts>>

\* variant: the failure recorded as an entry of the image kind
ImageCatchAsImage(r) ==
  /\ chatHistory' = appendEntry(chatHistory, ImageEntry(r.localUrl, ConnectError))
  /\ image' = Null
  /\ inflight' = inflight \ {r}
  /\ UNCHANGED <<message, result, imageResult, fetches, urls, alerts>>

\* variant: setMessage('') copied from the text handler
ImageCatchClearsMessage(r) ==
  /\ chatHistory' = appendEntry(chatHistory, ConnectErrorEntry)
  /\ message' = ""
  /\ inflight' = inflight \ {r}
  /\ UNCHANGED <<image, result, imageResult, fetches, urls, alerts>>

\* the catch block of handleImageUpload, then setImage(null)
ImageCatch(r) ==
  /\ chatHistory' = appendEntry(chatHistory, ConnectErrorEntry)
  /\ image' = Null
  /\ inflight' = inflight \ {r}
  /\ UNCHANGED <<message, result, imageResult, fetches, urls, alerts>>

ImageFetchReject(r) ==
  /\ r.chan = "image" /\ r.stage = "fetch"
  /\ settled' = <<>>
  /\ ImageCatch(r)

\* variant: handleImagePrediction(data) called before the test of
\* data.prediction
ImageJsonWithAlways(r, json) ==
  /\ r.chan = "image" /\ r.stage = "json"
  /\ settled' = <<[id |-> r.id, json |-> json]>>
  /\ IF json = <<>>
     THEN ImageCatch(r)
     ELSE LET data == json[1] IN
          /\ imageResult' = handleImagePrediction(data)
          /\ chatHistory' = ImageOutcome(chatHistory, r, data)
          /\ image' = Null
          /\ inflight' = inflight \ {r}
          /\ UNCHANGED <<message, result, fetches, urls, alerts>>

\* res.json() settles with json and handleImageUpload runs to its end
ImageJsonWith(r, json) ==
  /\ r.chan = "image" /\ r.stage = "json"
  /\ settled' = <<[id |-> r.id, json |-> json]>>
  /\ IF json = <<>>
     THEN ImageCatch(r)
     ELSE LET data == json[1] IN
          /\ imageResult' = IF Truthy(data, "prediction")
                            THEN handleImagePrediction(data) ELSE imageResult
          /\ chatHistory' = ImageOutcome(chatHistory, r, data)
          /\ image' = Null
          /\ inflight' = inflight \ {r}
          /\ UNCHANGED <<message, result, fetches, urls, alerts>>

ImageJson(r) ==
  /\ r.chan = "image" /\ r.stage = "json"
  /\ \E json \in Settlements(r.ok, ImageBodies) : ImageJsonWith(r, json)

----------------------------------------------------------------------------

Next ==
  \/ ChangeMessage
  \/ ChangeImage
  \/ handlePromptClick
  \/ handleSendMessage
  \/ handleImageUpload
  \/ \E r \in inflight : ChatFetchResolve(r)
  \/ \E r \in inflight : ChatFetchReject(r)
  \/ \E r \in inflight : ChatJson(r)
  \/ \E r \in inflight : ImageFetchResolve(r)
  \/ \E r \in inflight : ImageFetchReject(r)
  \/ \E r \in inflight : ImageJson(r)

Spec == Init /\ [][Next]_vars

----------------------------------------------------------------------------
(* The interpreters over the whole confidence range: a session in which    *)
(* one dispatch awaits its body, and is given a label with every           *)
(* confidence from 0 to 100 in steps of an eighth, or with none.           *)

AllConfidences == 0..(8 * 100)

InterpBodies(key, labels) ==
  {[k \in {key} |-> l] : l \in labels}
    \cup {[k \in {key, "confidence"} |-> IF k = key THEN l ELSE c] :
            l \in labels, c \in AllConfidences}

InitInterp ==
  /\ chatHistory = <<>>
  /\ result = ""
  /\ imageResult = ""
  /\ alerts = <<>>
  /\ settled = <<>>
  /\ fetches = 1
  /\ \/ /\ \E i \in 1..Len(prompts) :
             /\ message = prompts[i]
             /\ inflight = {[id |-> 1, chan |-> "text", stage |-> "json",
                             message |-> prompts[i], history |-> <<>>,
                             ok |-> TRUE]}
        /\ image = Null
        /\ urls = 0
     \/ /\ message = ""
        /\ \E f \in Files :
             /\ image = f
             /\ inflight = {[id |-> 1, chan |-> "image", stage |-> "json",
                             file |-> f, localUrl |-> createObjectURL(f, 1),
                             ok |-> TRUE]}
        /\ urls = 1

NextInterp ==
  \/ \E r \in inflight, b \in InterpBodies("response", TextLabels) :
       ChatJsonWith(r, <<b>>)
  \/ \E r \in inflight, b \in InterpBodies("prediction", ImageLabels) :
       ImageJsonWith(r, <<b>>)

SpecInterp == InitInterp /\ [][NextInterp]_vars

----------------------------------------------------------------------------
(* Vocabulary of the properties *)

\* the dispatch r runs to its end in this step
Done(r) == \A q \in inflight' : q.id # r.id

\* this step gives r the body of its response
Settles(r) == settled' # <<>> /\ settled'[1].id = r.id

\* this step gives r a JSON body
Parsed(r) == Settles(r) /\ settled'[1].json # <<>>

Data(r) == settled'[1].json[1]

\* the awaited promise of r rejects: no response, or a body that is not JSON
Rejected(r) == r.stage = "fetch" \/ (Settles(r) /\ settled'[1].json = <<>>)

Carries(d, k) == k \in DOMAIN d /\ d[k] # ""

BelowThreshold(d) == "confidence" \notin DOMAIN d \/ d.confidence < 8 * 70

DigitChars == <<"0", "1", "2", "3", "4", "5", "6", "7", "8", "9">>

\* n hundredths written with two decimal digits
Dec2(n) ==
  ToString(n \div 100) \o "." \o DigitChars[((n \div 10) % 10) + 1]
    \o DigitChars[(n % 10) + 1]

Annotated(label, n) == label \o " (Confidence: " \o Dec2(n) \o "%)"

\* every label-bearing verdict of a label
VerdictsOf ==
  [l \in TextLabels \cup ImageLabels |-> {Annotated(l, n) : n \in 0..10000}]

\* the hundredths nearest to the confidence c
Nearest(c) ==
  {n \in ((100 * c) \div 8 - 1)..((100 * c) \div 8 + 1) :
     8 * n - 100 * c \in -4..4}

Last(h) == h[Len(h)]

----------------------------------------------------------------------------
(* Properties *)

\* C1: over any step the transcript does not shrink and every entry keeps
\* its index and its fields.
C1_TranscriptOnlyGrows ==
  [][/\ Len(chatHistory') >= Len(chatHistory)
     /\ \A i \in 1..Len(chatHistory) : chatHistory'[i] = chatHistory[i]]_vars

C1_Witness ==
  /\ Len(chatHistory) = 2
  /\ chatHistory[1].type = "image"
  /\ chatHistory[2].type = "text"

\* C2: for a response with a label, on either channel, the verdict is the
\* disclaimer of the channel exactly when the confidence is absent or below
\* 70 and a verdict bearing the label exactly when it is 70 or more; the two
\* disclaimers differ.
C2_ThresholdPolicy ==
  [][\A r \in inflight :
       (Done(r) /\ Parsed(r)) =>
         LET d == Data(r) IN
         /\ ChatDisclaimer # ImageDisclaimer
         /\ (r.chan = "text" /\ Carries(d, "response")) =>
              /\ (result' = ChatDisclaimer) <=> BelowThreshold(d)
              /\ (result' \in VerdictsOf[d.response]) <=> ~BelowThreshold(d)
              /\ result' # ImageDisclaimer
         /\ (r.chan = "image" /\ Carries(d, "prediction")) =>
              /\ (imageResult' = ImageDisclaimer) <=> BelowThreshold(d)
              /\ (imageResult' \in VerdictsOf[d.prediction]) <=> ~BelowThreshold(d)
              /\ imageResult' # ChatDisclaimer]_vars

C2_Witness ==
  /\ inflight = {}
  /\ result = "Eczema (Confidence: 70.00%)"

\* C3: for a response with confidence 70 or more the verdict is the label,
\* " (Confidence: ", the hundredths nearest to the confidence written with
\* two decimal digits, and "%)"; 85.5 gives "85.50".
C3_TwoDecimals ==
  [][\A r \in inflight :
       (Done(r) /\ Parsed(r) /\ ~BelowThreshold(Data(r))) =>
         LET d == Data(r) IN
         /\ (r.chan = "text" /\ Carries(d, "response")) =>
              /\ \E n \in Nearest(d.confidence) :
                   result' = Annotated(d.response, n)
              /\ (d.response = "Eczema" /\ d.confidence = 8 * 85 + 4) =>
                   result' = "Eczema (Confidence: 85.50%)"
         /\ (r.chan = "image" /\ Carries(d, "prediction")) =>
              \E n \in Nearest(d.confidence) :
                imageResult' = Annotated(d.prediction, n)]_vars

C3_Witness ==
  /\ inflight = {}
  /\ result = "Eczema (Confidence: 85.50%)"

\* C4: a text dispatch that ends on a response with a label appends exactly
\* one Text entry with the submitted message and the label, sets the text
\* verdict to the interpretation of the response and empties the pending
\* text.
C4_TextLabelCompletion ==
  [][\A r \in inflight :
       (r.chan = "text" /\ Done(r) /\ Parsed(r)
          /\ Carries(Data(r), "response")) =>
         /\ chatHistory' = chatHistory \o
              <<[type |-> "text", user |-> r.message, bot |-> Data(r).response]>>
         /\ result' = IF BelowThreshold(Data(r))
                      THEN "We couldn't confidently predict a disease based on your symptoms."
                      ELSE Annotated(Data(r).response,
                                     CHOOSE n \in Nearest(Data(r).confidence) :
                                       \A k \in Nearest(Data(r).confidence) : k <= n)
         /\ message' = ""]_vars

C4_Witness ==
  /\ chatHistory # <<>>
  /\ Last(chatHistory) =
       [type |-> "text", user |-> "Red rash on arms", bot |-> "Eczema"]
  /\ result = "Eczema (Confidence: 85.50%)"
  /\ message = ""
  /\ inflight = {}

\* C5: a text dispatch that ends on a response with an error message and no
\* label appends exactly one Text entry with user text "Error" and the
\* service's message, and leaves the text verdict as it was.
C5_TextServiceError ==
  [][\A r \in inflight :
       (r.chan = "text" /\ Done(r) /\ Parsed(r)
          /\ ~Carries(Data(r), "response") /\ Carries(Data(r), "error")) =>
         /\ chatHistory' = chatHistory \o
              <<[type |-> "text", user |-> "Error", bot |-> Data(r).error]>>
         /\ result' = result]_vars

C5_Witness ==
  /\ chatHistory # <<>>
  /\ Last(chatHistory) =
       [type |-> "text", user |-> "Error", bot |-> "No message provided"]
  /\ result = "Eczema (Confidence: 85.50%)"

C7_TransportFailureGeneric ==
  [][\A r \in inflight :
       (Done(r) /\ (Rejected(r) \/ (r.stage = "json" /\ ~r.ok))) =>
         chatHistory' = chatHistory \o
           <<[type |-> "text", user |-> "Error",
              bot |-> "Error connecting to the API."]>>]_vars

\* C8: an upload with no image selected raises the prompt, sends no request
\* and leaves the transcript, both verdicts and both pending slots as they
\* were.
C8_UploadWithoutImage ==
  [][(image \in {Null, Undefined} /\ handleImageUpload) =>
       /\ alerts' = alerts \o <<"Please upload an image.">>
       /\ fetches' = fetches
       /\ inflight' = inflight
       /\ urls' = urls
       /\ UNCHANGED <<chatHistory, result, imageResult, message, image>>]_vars

C8_Witness ==
  /\ alerts = <<"Please upload an image.">>
  /\ image = Undefined
  /\ fetches = 0

\* C9: an image dispatch that ends on a response with a prediction appends
\* exactly one Image entry with the reference created for the uploaded file
\* and the raw prediction, and sets the image verdict to the image
\* interpretation of the response: the image disclaimer below 70.
C9_ImagePredictionCompletion ==
  [][\A r \in inflight :
       (r.chan = "image" /\ Done(r) /\ Parsed(r)
          /\ Carries(Data(r), "prediction")) =>
         /\ chatHistory' = chatHistory \o
              <<[type |-> "image", imageUrl |-> r.localUrl,
                 bot |-> Data(r).prediction]>>
         /\ r.localUrl.file = r.file
         /\ imageResult' =
              IF BelowThreshold(Data(r))
              THEN "We couldn't confidently diagnose the skin condition from the image."
              ELSE Annotated(Data(r).prediction,
                             CHOOSE n \in Nearest(Data(r).confidence) :
                               \A k \in Nearest(Data(r).confidence) : k <= n)]_vars

C9_Witness ==
  /\ chatHistory # <<>>
  /\ Last(chatHistory).type = "image"
  /\ Last(chatHistory).bot = "Psoriasis"
  /\ Last(chatHistory).imageUrl.file = "arm.png"
  /\ imageResult = "We couldn't confidently diagnose the skin condition from the image."

\* C10: an image dispatch that ends on a JSON response without a prediction
\* leaves the transcript and both verdicts as they were and only clears the
\* pending image.
C10_ImageNoPrediction ==
  [][\A r \in inflight :
       (r.chan = "image" /\ Done(r) /\ Parsed(r)
          /\ ~Carries(Data(r), "prediction")) =>
         /\ image' = Null
         /\ UNCHANGED <<chatHistory, result, imageResult, message,
                        alerts, fetches, urls>>]_vars

C10_Witness ==
  /\ fetches = 1
  /\ urls = 1
  /\ inflight = {}
  /\ chatHistory = <<>>
  /\ imageResult = ""
  /\ image = Null

C12_PendingClearedAtCompletion ==
  [][/\ \A r \in inflight :
          Done(r) => /\ r.chan = "text" => message' = ""
                     /\ r.chan = "image" => image' = Null
     /\ (/\ ~\E r \in inflight : r.chan = "text" /\ Done(r)
         /\ ~ChangeMessage /\ ~handlePromptClick) => message' = message
     /\ (/\ ~\E r \in inflight : r.chan = "image" /\ Done(r)
         /\ ~ChangeImage) => image' = image]_vars

C12_Witness ==
  /\ settled # <<>>
  /\ settled[1].id = 1
  /\ message = ""
  /\ \E q \in inflight :
       q.chan = "text" /\ q.id = 2 /\ q.message = "Red rash on arms"
  /\ chatHistory = <<[type |-> "text", user |-> "Dry patch", bot |-> "Eczema"]>>

\* C13: a preset click sets the pending text to one of the five preset
\* strings and changes nothing else: no entry, no verdict, no pending image,
\* no request, whatever is in flight.
C13_PresetOnlySetsPendingText ==
  [][handlePromptClick =>
       /\ message' \in {"Red rash on arms", "Itching and dryness",
                        "Skin inflammation", "Blisters and bumps",
                        "Swelling and redness"}
       /\ UNCHANGED <<chatHistory, result, imageResult, image,
                      inflight, fetches, urls, alerts>>]_vars

C13_Witness ==
  /\ message = "Red rash on arms"
  /\ \E r \in inflight : r.chan = "text" /\ r.message = "Dry patch"
  /\ \E r \in inflight : r.chan = "image"

\* the step that ends the dispatch c owes the transcript an entry
EntryDue(c) ==
  \/ Rejected(c)
  \/ /\ Parsed(c)
     /\ IF c.chan = "text"
        THEN Carries(Data(c), "response") \/ Carries(Data(c), "error")
        ELSE Carries(Data(c), "prediction")

\* the entry e is one the dispatch c can have made
EntryOf(c, e) ==
  IF e.type = "image"
  THEN c.chan = "image" /\ e.imageUrl = c.localUrl
  ELSE e.user = "Error" \/ (c.chan = "text" /\ e.user = c.message)

\* C14: the step that ends a dispatch keeps the whole transcript as it is at
\* that moment, entries of the other channel's dispatches included, and puts
\* the entry of the ending dispatch after it: entries stand in the order in
\* which the dispatches ended.
C14_AppendsInCompletionOrder ==
  [][\A c \in inflight :
       Done(c) =>
         IF EntryDue(c)
         THEN /\ Len(chatHistory') = Len(chatHistory) + 1
              /\ SubSeq(chatHistory', 1, Len(chatHistory)) = chatHistory
              /\ EntryOf(c, Last(chatHistory'))
         ELSE chatHistory' = chatHistory]_vars

C14_Witness ==
  /\ fetches = 2
  /\ inflight = {}
  /\ settled # <<>>
  /\ settled[1].id = 1
  /\ Len(chatHistory) = 2
  /\ chatHistory[1].type = "image"
  /\ chatHistory[1].bot = "Psoriasis"
  /\ chatHistory[2] = [type |-> "text", user |-> "Dry patch", bot |-> "Eczema"]

\* C15: at most one dispatch of each channel is in flight.
C15_OneInFlightPerChannel ==
  \A r \in inflight, q \in inflight : r.chan = q.chan => r = q

\* the exploration still has room for one more dispatch, one more prompt
BelowDispatchBound == fetches < MaxDispatch

BelowAlertBound == Len(alerts) < MaxAlerts

\* C16 as stated: in every reachable state the send-text, upload-image and
\* select-preset actions are all enabled.
C16_AllActionsAlwaysEnabled ==
  (BelowDispatchBound /\ BelowAlertBound) =>
    /\ ENABLED handleSendMessage
    /\ ENABLED handleImageUpload
    /\ ENABLED handlePromptClick

\* C16 as amended: in every reachable state, whatever failures came before,
\* a preset can be selected, text can be typed, an upload is taken (and
\* either dispatched or answered with the prompt), and a text submit is
\* taken whenever the pending text is not empty.
C16_NeverStuck ==
  /\ ENABLED handlePromptClick
  /\ ENABLED ChangeMessage
  /\ ENABLED ChangeImage
  /\ (IF image \in {Null, Undefined} THEN BelowAlertBound ELSE BelowDispatchBound)
       => ENABLED handleImageUpload
  /\ (message # "" /\ BelowDispatchBound) => ENABLED handleSendMessage

C16_Witness ==
  /\ inflight = {}
  /\ fetches = 1
  /\ alerts # <<>>
  /\ chatHistory = <<[type |-> "text", user |-> "Error",
                      bot |-> "Error connecting to the API."]>>
  /\ message = "Dry patch"
  /\ image = "arm.png"

\* C17: every entry of the transcript is a Text entry with a user text and
\* no image reference, or an Image entry with an image reference and no user
\* text.
C17_EntriesWellFormed ==
  \A i \in 1..Len(chatHistory) :
    LET e == chatHistory[i] IN
    /\ e.type \in {"text", "image"}
    /\ e.type = "text" => DOMAIN e = {"type", "user", "bot"}
    /\ e.type = "image" => DOMAIN e = {"type", "imageUrl", "bot"}

C17_Witness ==
  /\ Len(chatHistory) = 2
  /\ chatHistory[1].type = "text"
  /\ chatHistory[1].user = "Error"
  /\ chatHistory[2].type = "image"

\* this step is a step of a dispatch of the channel: its submit, the arrival
\* of its status line, or its end
StepOf(chan) ==
  \E r \in inflight \cup inflight' :
    r.chan = chan /\ (r \notin inflight \/ r \notin inflight')

\* C18: no step of a text dispatch changes the image verdict or the pending
\* image, no step of an image dispatch (a refused upload included) changes
\* the text verdict or the pending text, and such steps change the
\* transcript only by adding at its end.
C18_ChannelsDoNotInterfere ==
  [][/\ StepOf("text") => UNCHANGED <<imageResult, image>>
     /\ (StepOf("image") \/ alerts' # alerts) => UNCHANGED <<result, message>>
     /\ (StepOf("text") \/ StepOf("image") \/ alerts' # alerts) =>
          /\ Len(chatHistory') >= Len(chatHistory)
          /\ SubSeq(chatHistory', 1, Len(chatHistory)) = chatHistory]_vars

C18_Witness ==
  /\ settled # <<>>
  /\ settled[1].id = 2
  /\ chatHistory # <<>>
  /\ Last(chatHistory).type = "image"
  /\ message = "Dry patch"
  /\ result = "Eczema (Confidence: 85.50%)"
  /\ image = Null

\* the interpretation of the response d that bears the label
VerdictOf(label, d, disclaimer) ==
  IF BelowThreshold(d)
  THEN disclaimer
  ELSE Annotated(label, CHOOSE n \in Nearest(d.confidence) :
                          \A k \in Nearest(d.confidence) : k <= n)

\* C19: both verdicts start empty; a verdict changes only in the step that
\* ends a dispatch of its channel on a response with a label, and that step
\* makes it the interpretation of that response.
C19_VerdictIsLatestInterpretation ==
  /\ result = "" /\ imageResult = ""
  /\ [][/\ \A r \in inflight :
             (r.chan = "text" /\ Done(r) /\ Parsed(r)
                /\ Carries(Data(r), "response")) =>
               result' = VerdictOf(Data(r).response, Data(r),
                 "We couldn't confidently predict a disease based on your symptoms.")
        /\ \A r \in inflight :
             (r.chan = "image" /\ Done(r) /\ Parsed(r)
                /\ Carries(Data(r), "prediction")) =>
               imageResult' = VerdictOf(Data(r).prediction, Data(r),
                 "We couldn't confidently diagnose the skin condition from the image.")
        /\ result' # result =>
             \E r \in inflight : /\ r.chan = "text" /\ Done(r) /\ Parsed(r)
                                 /\ Carries(Data(r), "response")
        /\ imageResult' # imageResult =>
             \E r \in inflight : /\ r.chan = "image" /\ Done(r) /\ Parsed(r)
                                 /\ Carries(Data(r), "prediction")]_vars

C19_Witness ==
  /\ urls = 0
  /\ inflight = {}
  /\ result = "We couldn't confidently predict a disease based on your symptoms."
  /\ Len(chatHistory) = 2
  /\ chatHistory[2] = [type |-> "text", user |-> "Error",
                       bot |-> "No message provided"]

\* C20: the request of a text dispatch holds the pending text and the
\* transcript of the moment of the submit, keeps them while in flight, and
\* the entry made for a response with a label has that text as user text,
\* whatever the pending text and the transcript have become.
C20_SubmitTimeValues ==
  [][/\ \A r \in inflight' \ inflight :
          (r.chan = "text" /\ r.stage = "fetch") =>
            r.message = message /\ r.history = chatHistory
     /\ \A r \in inflight, q \in inflight' :
          (r.chan = "text" /\ q.id = r.id) =>
            q.message = r.message /\ q.history = r.history
     /\ \A r \in inflight :
          (r.chan = "text" /\ Done(r) /\ Parsed(r)
             /\ Carries(Data(r), "response")) =>
            /\ Len(chatHistory') = Len(chatHistory) + 1
            /\ Last(chatHistory').user = r.message]_vars

C20_Witness ==
  \E r \in inflight :
    /\ r.chan = "text" /\ r.stage = "json"
    /\ r.message = "Dry patch"
    /\ message = "Red rash on arms"
    /\ r.history = <<>>
    /\ Len(chatHistory) = 1
    /\ chatHistory[1].type = "image"

\* the texts a submit can carry: what was typed or a preset, never empty
SubmittableTexts ==
  (TypedTexts \cup {prompts[i] : i \in 1..Len(prompts)}) \ {""}

\* C21: a text verdict that is not empty comes with a Text entry holding a
\* submitted message and a label of the service, an image verdict that is
\* not empty comes with an Image entry, and a step that changes a verdict
\* adds an entry.
C21_VerdictBackedByTranscript ==
  /\ [](/\ result # "" =>
            \E i \in 1..Len(chatHistory) :
              /\ chatHistory[i].type = "text"
              /\ chatHistory[i].user \in SubmittableTexts
              /\ chatHistory[i].bot \in TextLabels \ {""}
        /\ imageResult # "" =>
            \E i \in 1..Len(chatHistory) :
              /\ chatHistory[i].type = "image"
              /\ chatHistory[i].bot \in ImageLabels \ {""})
  /\ [][(result' # result \/ imageResult' # imageResult) =>
          Len(chatHistory') = Len(chatHistory) + 1]_vars

C21_Witness ==
  /\ inflight = {}
  /\ result = "We couldn't confidently predict a disease based on your symptoms."
  /\ imageResult = "Psoriasis (Confidence: 85.50%)"
  /\ Len(chatHistory) = 2
  /\ chatHistory[1].type = "image"
  /\ chatHistory[2] = [type |-> "text", user |-> "Red rash on arms",
                       bot |-> "Eczema"]

====
